---- MODULE Spec2Model ----
(***************************************************************************)
(* QUBO construction and solution decoding of the two notebooks            *)
(* "DWAVE Quantum Annealing" (annealing path) and "Qiskit QAOA" (circuit   *)
(* path).  A notebook is a sequence of examples run in one interpreter:    *)
(* every example builds its objective from the interpreter's globals,      *)
(* submits it to the external solver and decodes the returned sample.      *)
(* Non-integer coefficients are kept exact as scaled integers.             *)
(***************************************************************************)
EXTENDS Integers, Sequences, FiniteSets

VARIABLES
    path,          \* which notebook runs in this interpreter
    pc,            \* stage of the current example
    ex,            \* the current example
    n,             \* global n (number of variables), Unbound before first set
    i,             \* global i (module-level loop variable), Unbound before first set;
                   \* a number after a range loop, a key after the loop over sampleKeys
    defs,          \* the helper names bound so far among "sortbynumber" and "draw_graph"
    arr,           \* global arr (number partitioning items)
    edges,         \* global edges: sequence of <<u, v, w>>
    muts,          \* InitialMutations: sequence of [patientId, gene]
    risk_factor_matrix, \* global risk_factor_matrix, in hundredths
    D,             \* global D (coverage matrix)
    A,             \* global A (exclusivity matrix)
    stock_vals,    \* global stock_vals
    calls,         \* solver calls issued by the current example
    compiled,      \* models compiled by the current example
    bqm,           \* the compilation (1, 2, ...) the global bqm / problem comes from
    submitted,     \* the compilation the solver was called with, 0 before the call
    sample,        \* best sample as returned: sequence of <<key, value>>
    result         \* outcome of the decoder

vars == <<path, pc, ex, n, i, defs, arr, edges, muts, D, A, stock_vals, risk_factor_matrix,
          calls, compiled, bqm, submitted, sample, result>>

----------------------------------------------------------------------------
(* Bounds of the explored inputs *)

MaxN == 3          \* longest generated item list / largest generated graph
MaxItem == 3       \* largest generated item value
MaxEdges == 2      \* longest generated edge list
MaxWeight == 2     \* largest generated edge weight
MaxMut == 3        \* longest generated mutation table
NumGenes == 3      \* gene symbols of generated tables, in alphabetical order
NumPatients == 2   \* patient ids of generated tables, in id order
MaxCount == 1      \* largest entry of a generated A or D matrix
MaxValue == 2      \* largest value a generated sample gives a variable

Unbound == -1      \* a global name that has not been assigned yet

----------------------------------------------------------------------------
(* Arithmetic and list helpers (Python builtins) *)

RECURSIVE SumSeq(_)
SumSeq(s) == IF Len(s) = 0 THEN 0 ELSE s[1] + SumSeq(Tail(s))

RECURSIVE SumOver(_, _)
SumOver(S, f) ==
    IF S = {} THEN 0
    ELSE LET e == CHOOSE e \in S : TRUE IN f[e] + SumOver(S \ {e}, f)

Abs(v) == IF v < 0 THEN -v ELSE v

Range(s) == {s[k] : k \in 1..Len(s)}

SetMin(S) == CHOOSE v \in S : \A w \in S : v <= w

RECURSIVE SeqsUpTo(_, _)
SeqsUpTo(S, len) ==
    IF len = 0 THEN {<<>>}
    ELSE LET shorter == SeqsUpTo(S, len - 1)
         IN shorter \cup {Append(s, e) : s \in {t \in shorter : Len(t) = len - 1}, e \in S}

Assignments(nv) == [0..(nv - 1) -> {0, 1}]

----------------------------------------------------------------------------
(* Variable names and their parsing *)

DigitChar == <<"0", "1", "2", "3", "4", "5", "6", "7", "8", "9">>

RECURSIVE Str(_)
Str(k) == IF k < 10 THEN <<DigitChar[k + 1]>>
          ELSE Str(k \div 10) \o <<DigitChar[(k % 10) + 1]>>

DigitVal(ch) == CHOOSE d \in 0..9 : DigitChar[d + 1] = ch

RECURSIVE int(_)
int(s) == IF Len(s) = 1 THEN DigitVal(s[1])
          ELSE 10 * int(SubSeq(s, 1, Len(s) - 1)) + DigitVal(s[Len(s)])

\* Array.create('x', n, 'BINARY') labels variable k 'x[k]';
\* binary_var_list(n) translated by from_docplex_mp labels it 'xk'.
VarName(p, k) == IF p = "anneal" THEN <<"x", "[">> \o Str(k) \o <<"]">>
                 ELSE <<"x">> \o Str(k)

\* int(str[2:len(str)-1])
sortbynumber(str) == int(SubSeq(str, 3, Len(str) - 1))

\* int(key[1:])
KeyIndex(key) == int(SubSeq(key, 2, Len(key)))

\* list.sort(key = sortbynumber): stable insertion into the sorted prefix
RECURSIVE InsertByNumber(_, _)
InsertByNumber(sorted, key) ==
    IF Len(sorted) = 0 THEN <<key>>
    ELSE IF sortbynumber(key) < sortbynumber(sorted[1])
         THEN <<key>> \o sorted
         ELSE <<sorted[1]>> \o InsertByNumber(Tail(sorted), key)

RECURSIVE SortKeys(_)
SortKeys(keys) ==
    IF Len(keys) = 0 THEN <<>>
    ELSE InsertByNumber(SortKeys(SubSeq(keys, 1, Len(keys) - 1)), keys[Len(keys)])

\* dict lookup: the value stored under key
Lookup(dict, key) == LET k == CHOOSE k \in 1..Len(dict) : dict[k][1] = key IN dict[k][2]

Keys(dict) == [k \in 1..Len(dict) |-> dict[k][1]]

\* sampleKeys.sort(key = sortbynumber); sortedSample = {i: sample.sample[i] for i in sampleKeys}
SortedSample(smp) ==
    LET sampleKeys == SortKeys(Keys(smp))
    IN [k \in 1..Len(sampleKeys) |-> <<sampleKeys[k], Lookup(smp, sampleKeys[k])>>]

\* the entries of s at the positions in keep, in order
RECURSIVE Filter(_, _)
Filter(s, keep) ==
    IF Len(s) = 0 THEN <<>>
    ELSE Filter(SubSeq(s, 1, Len(s) - 1), keep)
         \o (IF Len(s) \in keep THEN <<s[Len(s)]>> ELSE <<>>)

----------------------------------------------------------------------------
(* The external solver: sampler.sample(bqm).first / algorithm.solve(problem) *)

\* orders in which the solver may list the variables
Orders(nv) ==
    { [k \in 1..nv |-> k - 1],
      [k \in 1..nv |-> nv - k],
      [k \in 1..nv |-> k % nv] }

\* the sample listing the variables of order o except variable skip
SampleOf(p, o, bits, skip) ==
    LET kept == Filter(o, {k \in 1..Len(o) : o[k] # skip})
    IN [k \in 1..Len(kept) |-> <<VarName(p, kept[k]), bits[kept[k]]>>]

\* a sample lists every variable, or every variable but the first or the last
Samples(p, nv) ==
    {SampleOf(p, o, bits, skip) :
        o \in Orders(nv), bits \in Assignments(nv), skip \in {-1, 0, nv - 1}}

\* the variable a name belongs to (the inverse of the naming)
IndexOf(p, key) == CHOOSE k \in 0..99 : VarName(p, k) = key

\* indices the sample assigns
Assigned(p, smp) == {IndexOf(p, smp[k][1]) : k \in 1..Len(smp)}

Total(p, smp, nv) == Len(smp) = nv /\ Assigned(p, smp) = 0..(nv - 1)

\* the bit the sample gives variable k
BitOf(p, smp, k) == Lookup(smp, VarName(p, k))

NoResult ==
    [kind |-> "none", P1 |-> <<>>, P2 |-> <<>>, value |-> 0, aux |-> 0,
     colors |-> <<>>, err |-> "none"]

----------------------------------------------------------------------------
(* Example 1 - Number Partitioning *)

test_2 == <<25, 7, 13, 31, 42, 17, 21, 10>>
qaoa_test_2 == <<11, 29, 21, 17, 32, 10>>
roundtrip_items == <<25, 7, 13, 31>>

ItemLists(p) ==
    (SeqsUpTo(1..MaxItem, MaxN) \ {<<>>})
        \cup {roundtrip_items, IF p = "anneal" THEN test_2 ELSE qaoa_test_2}

\* c = sum(arr)
c == SumSeq(arr)

\* mutation: the sum of the selected items is not doubled
NPP_H_NotDoubled(x) ==
    LET s == SumOver(0..(n - 1), [k \in 0..(n - 1) |-> arr[k + 1] * x[k]])
    IN (c - s) * (c - s)

\* (c - 2*sum(arr[i]*x[i] for i in range(n)))**2
NPP_H(x) ==
    LET s == SumOver(0..(n - 1), [k \in 0..(n - 1) |-> arr[k + 1] * x[k]])
    IN (c - 2 * s) * (c - 2 * s)

\* mutation: the test of the bit is inverted
NPP_measure_Inverted(sortedSample) ==
    LET item == [k \in 1..Len(sortedSample) |-> arr[sortbynumber(sortedSample[k][1]) + 1]]
        P1 == Filter(item, {k \in 1..Len(sortedSample) : ~(sortedSample[k][2] = 0)})
        P2 == Filter(item, {k \in 1..Len(sortedSample) : sortedSample[k][2] = 0})
        sum1 == SumSeq(P1)
        sum2 == SumSeq(P2)
    IN [NoResult EXCEPT !.kind = "NPP", !.P1 = P1, !.P2 = P2, !.value = Abs(sum2 - sum1)]

NPP_measure(sortedSample) ==
    LET item == [k \in 1..Len(sortedSample) |-> arr[sortbynumber(sortedSample[k][1]) + 1]]
        P1 == Filter(item, {k \in 1..Len(sortedSample) : sortedSample[k][2] = 0})
        P2 == Filter(item, {k \in 1..Len(sortedSample) : ~(sortedSample[k][2] = 0)})
        sum1 == SumSeq(P1)
        sum2 == SumSeq(P2)
    IN [NoResult EXCEPT !.kind = "NPP", !.P1 = P1, !.P2 = P2, !.value = Abs(sum2 - sum1)]

\* mutation: the second test is dropped, every value other than 0 goes to P2
partition_Else(binary_dict) ==
    LET item == [k \in 1..Len(binary_dict) |-> arr[KeyIndex(binary_dict[k][1]) + 1]]
        P1 == Filter(item, {k \in 1..Len(binary_dict) : binary_dict[k][2] = 0})
        P2 == Filter(item, {k \in 1..Len(binary_dict) : binary_dict[k][2] # 0})
        sum1 == SumSeq(P1)
        sum2 == SumSeq(P2)
    IN [NoResult EXCEPT !.kind = "NPP", !.P1 = P1, !.P2 = P2, !.value = Abs(sum1 - sum2)]

\* if value == 0: P1.append(...) elif value == 1: P2.append(...)
partition(binary_dict) ==
    LET item == [k \in 1..Len(binary_dict) |-> arr[KeyIndex(binary_dict[k][1]) + 1]]
        P1 == Filter(item, {k \in 1..Len(binary_dict) : binary_dict[k][2] = 0})
        P2 == Filter(item, {k \in 1..Len(binary_dict) :
                              binary_dict[k][2] # 0 /\ binary_dict[k][2] = 1})
        sum1 == SumSeq(P1)
        sum2 == SumSeq(P2)
    IN [NoResult EXCEPT !.kind = "NPP", !.P1 = P1, !.P2 = P2, !.value = Abs(sum1 - sum2)]

----------------------------------------------------------------------------
(* Examples 2 and 3 - Max-Cut and Minimum Vertex Cover *)

maxcut_n == 5
maxcut_edges == <<<<0, 1, 1>>, <<0, 3, 1>>, <<1, 2, 1>>, <<2, 3, 1>>, <<2, 4, 1>>, <<3, 4, 1>>>>
mvc_n == 6
mvc_edges == <<<<0, 1, 1>>, <<0, 2, 1>>, <<1, 2, 1>>, <<1, 3, 1>>, <<1, 4, 1>>, <<1, 5, 1>>>>
qaoa_mvc_n == 5
qaoa_mvc_edges == <<<<0, 2, 1>>, <<2, 4, 1>>, <<1, 4, 1>>, <<3, 4, 1>>>>

\* P = 0.5 on the annealing path, P = 10 on the circuit path, as PNum / PDen
PNum(p) == IF p = "anneal" THEN 1 ELSE 10
PDen(p) == IF p = "anneal" THEN 2 ELSE 1

EdgeTuples(nv) == {<<u, v, w>> : u \in 0..(nv - 1), v \in 0..(nv - 1), w \in 1..MaxWeight}
                    \cap {e \in (0..(nv - 1)) \X (0..(nv - 1)) \X (1..MaxWeight) : e[1] < e[2]}

\* generated graphs: <<n, edges>>
Graphs == UNION {{<<nv, es>> : es \in SeqsUpTo(EdgeTuples(nv), MaxEdges)} : nv \in 1..MaxN}

MaxCutInstances(p) == Graphs \cup {<<maxcut_n, maxcut_edges>>}

MVCInstances(p) ==
    Graphs \cup {IF p = "anneal" THEN <<mvc_n, mvc_edges>> ELSE <<qaoa_mvc_n, qaoa_mvc_edges>>}

\* position of node v in G.nodes(): 0..n-1 from add_nodes_from, then the other
\* endpoints in the order add_weighted_edges_from meets them
NodeRank(v) ==
    IF v \in 0..(n - 1) THEN v
    ELSE n + SetMin({2 * kj[1] + kj[2] :
                       kj \in {kj \in (1..Len(edges)) \X (1..2) : edges[kj[1]][kj[2]] = v}})

\* G.edges() after G.add_weighted_edges_from(edges): an undirected edge is one
\* edge however often and in whichever direction it is listed, and it is
\* reported from its endpoint that comes first in G.nodes()
G_edges ==
    {IF NodeRank(edges[k][1]) <= NodeRank(edges[k][2])
     THEN <<edges[k][1], edges[k][2]>>
     ELSE <<edges[k][2], edges[k][1]>> : k \in 1..Len(edges)}

\* 2*x[e[0]]*x[e[1]] - x[e[0]] - x[e[1]]
MaxCutTerm(e, x) == 2 * x[e[1]] * x[e[2]] - x[e[1]] - x[e[2]]

\* sum(2*x[e[0]]*x[e[1]] - x[e[0]] - x[e[1]] for e in edges)
MaxCut_H(x) == SumSeq([k \in 1..Len(edges) |-> MaxCutTerm(edges[k], x)])

\* sum(1 - x[e[0]] - x[e[1]] + x[e[0]]*x[e[1]] for e in edges)
MVC_Penalty(x) ==
    SumSeq([k \in 1..Len(edges) |->
              1 - x[edges[k][1]] - x[edges[k][2]] + x[edges[k][1]] * x[edges[k][2]]])

\* PDen * (sum(x[i] for i in range(n)) + P*sum(...))
MVC_H(x) ==
    PDen(path) * SumOver(0..(n - 1), [k \in 0..(n - 1) |-> x[k]])
      + PNum(path) * MVC_Penalty(x)

\* maxcut_sol / mvc_sol: one entry per key of the sorted sample, in its order
SolOf(sortedSample) ==
    [k \in 1..Len(sortedSample) |-> IF sortedSample[k][2] = 0 THEN 0 ELSE 1]

ColorsOf(sol) == [k \in 1..Len(sol) |-> IF sol[k] = 0 THEN "r" ELSE "c"]

\* draw_graph(G, colors, pos) accepts one colour per node; what the plotting
\* library does with another number of colours is not this repository's code
DrawOutcomes(colors) == IF Len(colors) = n THEN {"drawn"} ELSE {"drawn", "ValueError"}

\* if maxcut_sol[u] != maxcut_sol[v]: both entries are read
EdgeLoopFails(sol) == \E e \in G_edges : e[1] >= Len(sol) \/ e[2] >= Len(sol)

\* if mvc_sol[u] == 1 or mvc_sol[v] == 1: the second entry is read only when
\* the first is not 1
CoverLoopFails(sol) ==
    \E e \in G_edges : \/ e[1] >= Len(sol)
                        \/ (sol[e[1] + 1] # 1 /\ e[2] >= Len(sol))

MaxCut(sortedSample, drawn) ==
    LET maxcut_sol == SolOf(sortedSample)
        colors == ColorsOf(maxcut_sol)
        cutsize == Cardinality({e \in G_edges : maxcut_sol[e[1] + 1] # maxcut_sol[e[2] + 1]})
    IN IF drawn # "drawn" THEN [NoResult EXCEPT !.kind = "MaxCut", !.err = drawn]
       ELSE IF EdgeLoopFails(maxcut_sol)
            THEN [NoResult EXCEPT !.kind = "MaxCut", !.colors = colors, !.err = "IndexError"]
            ELSE [NoResult EXCEPT !.kind = "MaxCut", !.colors = colors, !.value = cutsize]

\* mutation: an edge counts only when both endpoints are selected
MVC_BothEnds(sortedSample, drawn) ==
    LET mvc_sol == SolOf(sortedSample)
        colors == ColorsOf(mvc_sol)
        covered == Cardinality({e \in G_edges :
                       /\ mvc_sol[e[1] + 1] = 1
                       /\ e[2] < Len(mvc_sol)
                       /\ mvc_sol[e[2] + 1] = 1})
    IN IF drawn # "drawn" THEN [NoResult EXCEPT !.kind = "MVC", !.err = drawn]
       ELSE IF CoverLoopFails(mvc_sol)
            THEN [NoResult EXCEPT !.kind = "MVC", !.colors = colors, !.err = "IndexError"]
            ELSE [NoResult EXCEPT !.kind = "MVC", !.colors = colors, !.value = covered]

MVC(sortedSample, drawn) ==
    LET mvc_sol == SolOf(sortedSample)
        colors == ColorsOf(mvc_sol)
        covered == Cardinality({e \in G_edges : mvc_sol[e[1] + 1] = 1 \/ mvc_sol[e[2] + 1] = 1})
    IN IF drawn # "drawn" THEN [NoResult EXCEPT !.kind = "MVC", !.err = drawn]
       ELSE IF CoverLoopFails(mvc_sol)
            THEN [NoResult EXCEPT !.kind = "MVC", !.colors = colors, !.err = "IndexError"]
            ELSE [NoResult EXCEPT !.kind = "MVC", !.colors = colors, !.value = covered]

\* colors = ["r" if result.variables_dict[v] == 0.0 else "c" for v in result.variables_dict.keys()]
QaoaColors(variables_dict, kind, drawn) ==
    LET colors == [k \in 1..Len(variables_dict) |->
                     IF variables_dict[k][2] = 0 THEN "r" ELSE "c"]
    IN IF drawn # "drawn" THEN [NoResult EXCEPT !.kind = kind, !.err = drawn]
       ELSE [NoResult EXCEPT !.kind = kind, !.colors = colors]

----------------------------------------------------------------------------
(* Example 4 - Cancer Genomics.  A gene symbol is its rank in alphabetical   *)
(* order and a patient id its rank in id order.                              *)

TopK == 33
AlphaNum == 9
AlphaDen == 20

MutRecords == {[patientId |-> p, gene |-> g] : p \in 1..NumPatients, g \in 1..NumGenes}

MutationTables == SeqsUpTo(MutRecords, MaxMut)

\* Counter([m.gene.hugoGeneSymbol for m in InitialMutations])
mutation_counts(tbl, g) == Cardinality({k \in 1..Len(tbl) : tbl[k].gene = g})

FirstSeen(tbl, g) == SetMin({k \in 1..Len(tbl) : tbl[k].gene = g})

\* most_common(33): by count, ties in order of first occurrence
MostImportantMutations(tbl) ==
    LET seen == {tbl[k].gene : k \in 1..Len(tbl)}
        Before(h, g) == \/ mutation_counts(tbl, h) > mutation_counts(tbl, g)
                        \/ /\ mutation_counts(tbl, h) = mutation_counts(tbl, g)
                           /\ FirstSeen(tbl, h) < FirstSeen(tbl, g)
    IN {g \in seen : Cardinality({h \in seen : Before(h, g)}) < TopK}

\* mutations.sort(key = sortPatients): stable, by patientId
RECURSIVE SortPatients(_, _)
SortPatients(recs, ids) ==
    IF ids = {} THEN <<>>
    ELSE SelectSeq(recs, LAMBDA r : r.patientId = SetMin(ids))
           \o SortPatients(recs, ids \ {SetMin(ids)})

\* mutations: the records of the selected genes, sorted by patient
mutations(tbl) ==
    LET selected == SelectSeq(tbl, LAMBDA r : r.gene \in MostImportantMutations(tbl))
    IN SortPatients(selected, {selected[k].patientId : k \in 1..Len(selected)})

geneset(tbl) == {mutations(tbl)[k].gene : k \in 1..Len(mutations(tbl))}

RECURSIVE SortedSeq(_)
SortedSeq(S) == IF S = {} THEN <<>> ELSE <<SetMin(S)>> \o SortedSeq(S \ {SetMin(S)})

\* geneList: the selected genes, sorted
geneList(tbl) == SortedSeq(geneset(tbl))

\* keys of PatientGeneDict
patientKeys(tbl) == {mutations(tbl)[k].patientId : k \in 1..Len(mutations(tbl))}

\* PatientGeneDict[k] after list(set(...)): the genes of patient k
PatientGeneDict(tbl, k) ==
    {mutations(tbl)[q].gene : q \in {q \in 1..Len(mutations(tbl)) : mutations(tbl)[q].patientId = k}}

\* generate_pairs(lst): every 2-combination as a sorted tuple
generate_pairs(lst) == {<<g, h>> : g \in lst, h \in lst} \cap {pr \in lst \X lst : pr[1] < pr[2]}

PatientGeneDictPairs(tbl, k) == generate_pairs(PatientGeneDict(tbl, k))

\* the D loop stops with IndexError when it reaches a row without a gene
DLoopFails(tbl, nn) == patientKeys(tbl) # {} /\ nn > Len(geneList(tbl))

\* D = np.zeros((n, n)); D[i][i] = count of the patients carrying geneList[i],
\* for the rows the loop reached before it stopped
BuildD(tbl, nn) ==
    [r \in 0..(nn - 1) |-> [q \in 0..(nn - 1) |->
        IF r = q /\ r < Len(geneList(tbl))
        THEN Cardinality({k \in patientKeys(tbl) : geneList(tbl)[r + 1] \in PatientGeneDict(tbl, k)})
        ELSE 0]]

\* A = np.zeros((n, n)); for j in range(n): if i != j: A[i][j] = A[j][i] = count,
\* with i as the D loop left it
BuildA(tbl, nn, ii) ==
    LET count(j) == Cardinality({k \in patientKeys(tbl) :
                       <<geneList(tbl)[ii + 1], geneList(tbl)[j + 1]>> \in PatientGeneDictPairs(tbl, k)})
    IN [r \in 0..(nn - 1) |-> [q \in 0..(nn - 1) |->
          IF r = ii /\ q # ii THEN count(q)
          ELSE IF q = ii /\ r # ii THEN count(r)
          ELSE 0]]

\* H1 = sum(sum(A[i][j]*x[i]*x[j] for j in range(n)) for i in range(n))
Cancer_H1(x) ==
    SumOver(0..(n - 1), [r \in 0..(n - 1) |->
        SumOver(0..(n - 1), [q \in 0..(n - 1) |-> A[r][q] * x[r] * x[q]])])

\* H2 = sum(D[i][i]*x[i] for i in range(n))
Cancer_H2(x) == SumOver(0..(n - 1), [r \in 0..(n - 1) |-> D[r][r] * x[r]])

\* AlphaDen * (H1 - alpha*H2) with alpha = 0.45
Cancer_H(x) == AlphaDen * Cancer_H1(x) - AlphaNum * Cancer_H2(x)

\* coverage(pathway), with gene_coverage(gene) = D[geneList.index(gene)][geneList.index(gene)]
coverage(pathwayIdx) ==
    SumSeq([k \in 1..Len(pathwayIdx) |-> D[pathwayIdx[k]][pathwayIdx[k]]])

\* mutation: every unordered pair of selected genes is counted once
indep_Unordered(pathwayIdx) ==
    SumSeq([k \in 1..Len(pathwayIdx) |->
        SumSeq([q \in 1..Len(pathwayIdx) |->
            IF k >= q THEN 0 ELSE A[pathwayIdx[k]][pathwayIdx[q]]])])

\* indep(pathway)
indep(pathwayIdx) ==
    SumSeq([k \in 1..Len(pathwayIdx) |->
        SumSeq([q \in 1..Len(pathwayIdx) |->
            IF pathwayIdx[k] = pathwayIdx[q] THEN 0 ELSE A[pathwayIdx[k]][pathwayIdx[q]]])])

\* for i in sampleKeys: the key the report loop stopped at, the last key when
\* it ran through, i as it was when there is no key
ReportLoopVar(tbl, sortedSample, ii) ==
    LET stops == {k \in 1..Len(sortedSample) :
                    /\ sortedSample[k][2] = 1
                    /\ sortbynumber(sortedSample[k][1]) >= Len(geneList(tbl))}
    IN IF Len(sortedSample) = 0 THEN ii
       ELSE IF stops # {} THEN sortedSample[SetMin(stops)][1]
       ELSE sortedSample[Len(sortedSample)][1]

\* the pathway report: the selected genes, their coverage and their indep
Pathway(tbl, sortedSample) ==
    LET idx == [k \in 1..Len(sortedSample) |-> sortbynumber(sortedSample[k][1])]
        chosen == Filter(idx, {k \in 1..Len(sortedSample) : sortedSample[k][2] = 1})
    IN IF \E k \in 1..Len(chosen) : chosen[k] >= Len(geneList(tbl))
       THEN [NoResult EXCEPT !.kind = "Cancer", !.err = "IndexError"]
       ELSE LET pathway == [k \in 1..Len(chosen) |-> geneList(tbl)[chosen[k] + 1]]
            IN [NoResult EXCEPT !.kind = "Cancer", !.P1 = pathway,
                                !.value = coverage(chosen), !.aux = indep(chosen),
                                !.err = IF Len(pathway) = 0 THEN "ZeroDivisionError" ELSE "none"]

----------------------------------------------------------------------------
(* Example 5 - Order Partitioning.  Risk factors are in hundredths.          *)

Stocks == <<"A", "B", "C", "D", "E", "F">>
order_stock_vals == <<300, 100, 100, 200, 200, 100>>
order_risk_factor_matrix ==
    << <<30, 10, 10, 20, 20, 10>>,
       <<40, 5, 5, 12, 8, 30>>,
       <<10, 20, 20, 30, 5, 5>> >>
order_n == 6
m == 3
feed_a == 2
feed_b == 2
RiskScale == 100

\* T = sum(stock_vals)
T == SumSeq(stock_vals)

\* H1 = (T - 2*sum(stock_vals[j]*x[j] for j in range(n)))**2
Order_H1(x) ==
    LET s == SumOver(0..(n - 1), [j \in 0..(n - 1) |-> stock_vals[j + 1] * x[j]])
    IN (T - 2 * s) * (T - 2 * s)

\* H2 = sum(sum(risk_factor_matrix[i][j]*(2*x[j]-1)**2 for j in range(n)) for i in range(m)),
\* in hundredths
Order_H2(x) ==
    SumOver(0..(m - 1), [r \in 0..(m - 1) |->
        SumOver(0..(n - 1), [j \in 0..(n - 1) |->
            risk_factor_matrix[r + 1][j + 1] * ((2 * x[j] - 1) * (2 * x[j] - 1))])])

\* RiskScale * (a*H1 + b*H2) with feed_dict = {'a': 2, 'b': 2}
Order_H(x) == RiskScale * feed_a * Order_H1(x) + feed_b * Order_H2(x)

\* the stock partition: entry i of the sorted sample decides stock i
StockPartition(sortedSample) ==
    LET inA == {k \in 1..Len(sortedSample) : sortedSample[k][2] = 0}
        inB == (1..Len(sortedSample)) \ inA
        cost(S) == SumOver(S, [k \in S |-> stock_vals[k]])
        risk(S) == SumOver(S, [k \in S |-> risk_factor_matrix[1][k]
                                  + risk_factor_matrix[2][k] + risk_factor_matrix[3][k]])
    IN [NoResult EXCEPT !.kind = "Order",
                        !.P1 = Filter(Stocks, inA), !.P2 = Filter(Stocks, inB),
                        !.value = cost(inA) - cost(inB), !.aux = risk(inA) - risk(inB)]

----------------------------------------------------------------------------
(* The notebook as a state machine *)

\* model = H.compile() / problem = from_docplex_mp(model): how often an example runs it
Compilations(e) == IF e = "Order" THEN 2 ELSE 1

\* mutation: bqm is taken from the first compilation only
LastBqm_First(e) == 1

\* bqm = model.to_bqm(...) follows every compilation: bqm comes from the last one
LastBqm(e) == Compilations(e)

Init ==
    /\ path \in {"anneal", "circuit"}
    /\ pc = "idle"
    /\ ex = "none"
    /\ n = Unbound
    /\ i = Unbound
    /\ defs = {}
    /\ arr = <<>>
    /\ edges = <<>>
    /\ muts = <<>>
    /\ D = <<>>
    /\ A = <<>>
    /\ stock_vals = <<>>
    /\ risk_factor_matrix = <<>>
    /\ calls = 0
    /\ compiled = 0
    /\ bqm = 0
    /\ submitted = 0
    /\ sample = <<>>
    /\ result = NoResult

\* Example 1: arr, n, c, the objective and its compiled model
NPP_Build ==
    /\ pc = "idle"
    /\ \E a \in ItemLists(path) :
        /\ arr' = a
        /\ n' = Len(a)
    /\ pc' = "built"
    /\ ex' = "NPP"
    /\ compiled' = Compilations("NPP")
    /\ bqm' = LastBqm("NPP")
    /\ UNCHANGED <<path, i, defs, edges, muts, D, A, stock_vals, risk_factor_matrix,
                   calls, submitted, sample, result>>

\* model = H.compile() of the annealing notebook: the sum over an empty edge
\* list is the number 0, which has no compile
NoModel(p, es) == p = "anneal" /\ Len(es) = 0

\* Example 2: draw_graph, n, G, edges, the objective and its compiled model
MaxCut_Build ==
    /\ pc = "idle"
    /\ defs' = defs \cup {"draw_graph"}
    /\ \E g \in MaxCutInstances(path) :
        /\ n' = g[1]
        /\ edges' = g[2]
        /\ IF NoModel(path, g[2])
           THEN /\ result' = [NoResult EXCEPT !.kind = "MaxCut", !.err = "AttributeError"]
                /\ compiled' = 0 /\ bqm' = 0
                /\ pc' = "failed"
           ELSE /\ result' = result
                /\ compiled' = Compilations("MaxCut")
                /\ bqm' = LastBqm("MaxCut")
                /\ pc' = "built"
    /\ ex' = "MaxCut"
    /\ UNCHANGED <<path, i, arr, muts, D, A, stock_vals, risk_factor_matrix,
                   calls, submitted, sample>>

\* Example 3: n, G, edges, the first drawing with the draw_graph of Example 2
\* (on the circuit path nx and np come from Example 2 as well, and are needed
\* before edges is assigned), then P, the objective and its compiled model
MVC_Build ==
    /\ pc = "idle"
    /\ \E g \in MVCInstances(path) :
        /\ n' = g[1]
        /\ IF "draw_graph" \in defs
           THEN /\ edges' = g[2]
                /\ result' = result
                /\ compiled' = Compilations("MVC")
                /\ bqm' = LastBqm("MVC")
                /\ pc' = "built"
           ELSE /\ edges' = IF path = "anneal" THEN g[2] ELSE edges
                /\ result' = [NoResult EXCEPT !.kind = "MVC", !.err = "NameError"]
                /\ compiled' = 0 /\ bqm' = 0
                /\ pc' = "failed"
    /\ ex' = "MVC"
    /\ UNCHANGED <<path, i, defs, arr, muts, D, A, stock_vals, risk_factor_matrix,
                   calls, submitted, sample>>

\* Example 4: the matrices from the mutation table and the global n, then
\* x, H1, H2, H and the compiled model
Cancer_Build ==
    /\ pc = "idle"
    /\ path = "anneal"
    /\ \E tbl \in MutationTables :
        /\ muts' = tbl
        /\ IF n = Unbound
           THEN /\ i' = IF Len(tbl) = 0 THEN i ELSE Cardinality(MostImportantMutations(tbl)) - 1
                /\ D' = D /\ A' = A
                /\ result' = [NoResult EXCEPT !.kind = "Cancer", !.err = "NameError"]
                /\ compiled' = 0 /\ bqm' = 0
                /\ pc' = "failed"
           ELSE IF DLoopFails(tbl, n)
           THEN /\ i' = Len(geneList(tbl))
                /\ D' = BuildD(tbl, n) /\ A' = A
                /\ result' = [NoResult EXCEPT !.kind = "Cancer", !.err = "IndexError"]
                /\ compiled' = 0 /\ bqm' = 0
                /\ pc' = "failed"
           ELSE /\ i' = n - 1
                /\ D' = BuildD(tbl, n)
                /\ A' = BuildA(tbl, n, n - 1)
                /\ result' = result
                /\ compiled' = Compilations("Cancer")
                /\ bqm' = LastBqm("Cancer")
                /\ pc' = "built"
    /\ ex' = "Cancer"
    /\ UNCHANGED <<path, n, defs, arr, edges, stock_vals, risk_factor_matrix, calls,
                   submitted, sample>>

\* Example 5: the stock data, n, m, then x, H1, H2, H and the model, compiled twice
Order_Build ==
    /\ pc = "idle"
    /\ path = "anneal"
    /\ stock_vals' = order_stock_vals
    /\ risk_factor_matrix' = order_risk_factor_matrix
    /\ n' = order_n
    /\ pc' = "built"
    /\ ex' = "Order"
    /\ compiled' = Compilations("Order")
    /\ bqm' = LastBqm("Order")
    /\ UNCHANGED <<path, i, defs, arr, edges, muts, D, A, calls, submitted, sample, result>>

\* sampler.sample(bqm, num_reads=1000).first / algorithm.solve(problem)
Solve ==
    /\ pc = "built"
    /\ sample' \in Samples(path, n)
    /\ calls' = calls + 1
    /\ submitted' = bqm
    /\ pc' = "solved"
    /\ UNCHANGED <<path, ex, n, i, defs, arr, edges, muts, D, A, stock_vals,
                   risk_factor_matrix, compiled, bqm, result>>

\* Example 1: sort the sample and NPP_measure it / partition(result.variables_dict)
NPP_Decode ==
    /\ pc = "solved"
    /\ ex = "NPP"
    /\ result' = IF path = "anneal" THEN NPP_measure(SortedSample(sample))
                                    ELSE partition(sample)
    /\ defs' = IF path = "anneal" THEN defs \cup {"sortbynumber"} ELSE defs
    /\ pc' = "decoded"
    /\ UNCHANGED <<path, ex, n, i, arr, edges, muts, D, A, stock_vals,
                   risk_factor_matrix, calls, compiled, bqm, submitted, sample>>

\* Example 2: sort the sample and MaxCut it / colour the graph
MaxCut_Decode ==
    /\ pc = "solved"
    /\ ex = "MaxCut"
    /\ IF path = "anneal" /\ "sortbynumber" \notin defs
       THEN result' = [NoResult EXCEPT !.kind = "MaxCut", !.err = "NameError"]
       ELSE \E drawn \in DrawOutcomes(sample) :
              result' = IF path = "anneal" THEN MaxCut(SortedSample(sample), drawn)
                                           ELSE QaoaColors(sample, "MaxCut", drawn)
    /\ pc' = IF result'.err = "none" THEN "decoded" ELSE "failed"
    /\ UNCHANGED <<path, ex, n, i, defs, arr, edges, muts, D, A, stock_vals,
                   risk_factor_matrix, calls, compiled, bqm, submitted, sample>>

\* Example 3: sort the sample and MVC it / colour the graph
MVC_Decode ==
    /\ pc = "solved"
    /\ ex = "MVC"
    /\ IF path = "anneal" /\ "sortbynumber" \notin defs
       THEN result' = [NoResult EXCEPT !.kind = "MVC", !.err = "NameError"]
       ELSE \E drawn \in DrawOutcomes(sample) :
              result' = IF path = "anneal" THEN MVC(SortedSample(sample), drawn)
                                           ELSE QaoaColors(sample, "MVC", drawn)
    /\ pc' = IF result'.err = "none" THEN "decoded" ELSE "failed"
    /\ UNCHANGED <<path, ex, n, i, defs, arr, edges, muts, D, A, stock_vals,
                   risk_factor_matrix, calls, compiled, bqm, submitted, sample>>

\* Example 4: sortbynumber, sort the sample and report the pathway; the report
\* loop is at module level and leaves the global i at a key
Cancer_Decode ==
    /\ pc = "solved"
    /\ ex = "Cancer"
    /\ defs' = defs \cup {"sortbynumber"}
    /\ result' = Pathway(muts, SortedSample(sample))
    /\ i' = ReportLoopVar(muts, SortedSample(sample), i)
    /\ pc' = IF result'.err = "none" THEN "decoded" ELSE "failed"
    /\ UNCHANGED <<path, ex, n, arr, edges, muts, D, A, stock_vals,
                   risk_factor_matrix, calls, compiled, bqm, submitted, sample>>

\* Example 5: sort the sample and split the stocks
Order_Decode ==
    /\ pc = "solved"
    /\ ex = "Order"
    /\ result' = StockPartition(SortedSample(sample))
    /\ i' = IF Len(sample) = 0 THEN i ELSE Len(sample) - 1
    /\ defs' = defs \cup {"sortbynumber"}
    /\ pc' = "decoded"
    /\ UNCHANGED <<path, ex, n, arr, edges, muts, D, A, stock_vals,
                   risk_factor_matrix, calls, compiled, bqm, submitted, sample>>

\* the run moves on to another example.  The interpreter keeps every global;
\* carried over are the ones an example can read without assigning them first:
\* n, i and the helper names.  arr, edges, the mutation table, D, A, the stock
\* data and the sample are assigned by the example that reads them before it
\* reads them, and their kept values are not carried.
NextExample ==
    /\ pc \in {"decoded", "failed"}
    /\ pc' = "idle"
    /\ ex' = "none"
    /\ arr' = <<>> /\ edges' = <<>> /\ muts' = <<>> /\ D' = <<>> /\ A' = <<>>
    /\ stock_vals' = <<>> /\ risk_factor_matrix' = <<>>
    /\ calls' = 0
    /\ compiled' = 0 /\ bqm' = 0 /\ submitted' = 0
    /\ sample' = <<>>
    /\ result' = NoResult
    /\ UNCHANGED <<path, n, i, defs>>

Next ==
    \/ NPP_Build
    \/ MaxCut_Build
    \/ MVC_Build
    \/ Cancer_Build
    \/ Order_Build
    \/ Solve
    \/ NPP_Decode
    \/ MaxCut_Decode
    \/ MVC_Decode
    \/ Cancer_Decode
    \/ Order_Decode
    \/ NextExample

Spec == Init /\ [][Next]_vars

----------------------------------------------------------------------------
(* Properties *)

\* the assignment a total sample stands for: variable k |-> its bit
BitsOf(smp) == [k \in 0..(n - 1) |-> BitOf(path, smp, k)]

Decoded == pc = "decoded" /\ Total(path, sample, n)

BagOf(s) == [v \in Range(s) |-> Cardinality({k \in 1..Len(s) : s[k] = v})]

ItemSum(S) == SumOver(S, [k \in S |-> arr[k + 1]])

Sq(v) == v * v

\* C1: the number-partitioning objective of every assignment is the squared
\* difference of the sums of the items with bit 0 and the items with bit 1; its
\* minimum is 0 exactly when some subset sums to the same as its complement,
\* and is always the squared difference of the closest split.
C1_PartitionObjective ==
    (ex = "NPP" /\ pc = "built") =>
        LET all == 0..(n - 1)
            Split(S) == Abs(ItemSum(S) - ItemSum(all \ S))
            minH == SetMin({NPP_H(x) : x \in Assignments(n)})
        IN /\ \A x \in Assignments(n) :
                NPP_H(x) = Sq(ItemSum({k \in all : x[k] = 0}) - ItemSum({k \in all : x[k] = 1}))
           /\ (minH = 0) <=> (\E S \in SUBSET all : ItemSum(S) = ItemSum(all \ S))
           /\ minH = Sq(SetMin({Split(S) : S \in SUBSET all}))

\* C1 witness: an objective was built for three or more items that have a
\* perfect split, and some assignments reach it while others do not.
C1_Witness ==
    /\ ex = "NPP" /\ pc = "built" /\ n >= 3
    /\ \E x \in Assignments(n) : NPP_H(x) = 0
    /\ \E x \in Assignments(n) : NPP_H(x) > 0

\* total weight of the listed edges whose endpoints get different bits
CutWeight(x) ==
    SumSeq([k \in 1..Len(edges) |-> IF x[edges[k][1]] # x[edges[k][2]] THEN edges[k][3] ELSE 0])

\* C2: the max-cut objective of every assignment is minus the total weight of
\* the cut edges, so its minimum is minus the maximum cut weight, also when
\* weights differ from 1.
C2_MaxCutObjective ==
    (ex = "MaxCut" /\ pc = "built") =>
        /\ \A x \in Assignments(n) : MaxCut_H(x) = -CutWeight(x)
        /\ SetMin({MaxCut_H(x) : x \in Assignments(n)})
             = SetMin({-CutWeight(x) : x \in Assignments(n)})

Covers(x) == \A k \in 1..Len(edges) : x[edges[k][1]] = 1 \/ x[edges[k][2]] = 1

ConfiguredMVC ==
    /\ ex = "MVC"
    /\ <<n, edges>> = IF path = "anneal" THEN <<mvc_n, mvc_edges>>
                                          ELSE <<qaoa_mvc_n, qaoa_mvc_edges>>

\* C3: with the configured graph and penalty coefficient of either notebook,
\* every assignment that minimises the vertex-cover objective covers every edge.
C3_PenaltyStrength ==
    (ConfiguredMVC /\ pc = "built") =>
        LET minH == SetMin({MVC_H(x) : x \in Assignments(n)})
        IN \A x \in Assignments(n) : MVC_H(x) = minH => Covers(x)

\* patients of the table with a mutation of gene g
Carriers(tbl, g) == {tbl[k].patientId : k \in {k \in 1..Len(tbl) : tbl[k].gene = g}}

\* C4: after the matrices are built, D is diagonal with the carrier count of
\* gene i at (i, i), and A is symmetric with zero diagonal and the number of
\* patients carrying both gene i and gene j at (i, j).
C4_Matrices ==
    (ex = "Cancer" /\ pc = "built" /\ n <= Len(geneList(muts))) =>
        \A r \in 0..(n - 1), q \in 0..(n - 1) :
            LET gr == geneList(muts)[r + 1]
                gq == geneList(muts)[q + 1]
            IN IF r = q
               THEN D[r][q] = Cardinality(Carriers(muts, gr)) /\ A[r][q] = 0
               ELSE /\ D[r][q] = 0
                    /\ A[r][q] = A[q][r]
                    /\ A[r][q] = Cardinality(Carriers(muts, gr) \cap Carriers(muts, gq))

\* the documented risk term sum_i (sum_j p_ij*(2*x_j - 1))^2, times RiskScale squared
DocumentedRisk(x) ==
    SumOver(1..m, [r \in 1..m |->
        Sq(SumOver(1..n, [j \in 1..n |-> risk_factor_matrix[r][j] * (2 * x[j - 1] - 1)]))])

\* the value term (T - 2*sum q_j*x_j)^2
DocumentedValue(x) ==
    Sq(SumSeq(stock_vals) - 2 * SumOver(1..n, [j \in 1..n |-> stock_vals[j] * x[j - 1]]))

\* C5: the order-partitioning objective of every assignment is
\* a*(T - 2*sum q_j*x_j)^2 + b*sum_i (sum_j p_ij*(2*x_j - 1))^2, and its risk
\* term is not the same for every assignment.
C5_OrderObjective ==
    (ex = "Order" /\ pc = "built") =>
        /\ \A x \in Assignments(n) :
              RiskScale * (Order_H(x) - RiskScale * feed_a * DocumentedValue(x))
                = feed_b * DocumentedRisk(x)
        /\ \E x \in Assignments(n), y \in Assignments(n) : Order_H2(x) # Order_H2(y)

\* what the decoders of the current example return for a total sample
DecoderOutput(smp) ==
    CASE ex = "NPP" -> IF path = "anneal" THEN NPP_measure(SortedSample(smp)) ELSE partition(smp)
      [] ex = "MaxCut" -> IF path = "anneal" THEN MaxCut(SortedSample(smp), "drawn")
                                             ELSE QaoaColors(smp, "MaxCut", "drawn")
      [] ex = "MVC" -> IF path = "anneal" THEN MVC(SortedSample(smp), "drawn")
                                          ELSE QaoaColors(smp, "MVC", "drawn")
      [] ex = "Cancer" -> Pathway(muts, SortedSample(smp))
      [] ex = "Order" -> StockPartition(SortedSample(smp))

\* the same partition, cut, cover, pathway or split
SameResult(r1, r2) ==
    /\ r1.kind = r2.kind /\ r1.err = r2.err
    /\ BagOf(r1.P1) = BagOf(r2.P1) /\ BagOf(r1.P2) = BagOf(r2.P2)
    /\ r1.value = r2.value /\ r1.aux = r2.aux
    /\ r1.colors = r2.colors

\* C6: every decoder gives the same result for a total assignment whatever the
\* order in which the solver lists the variables: the result is that of the
\* assignment listed in index order.
C6_DecoderOrdering ==
    Decoded => SameResult(result, DecoderOutput(SampleOf(path, [k \in 1..n |-> k - 1],
                                                        BitsOf(sample), -1)))

\* C7: the number-partitioning decoders put item k in the first subset exactly
\* when bit k is 0 and in the second exactly when it is 1 (in index order on the
\* annealing path), every item lands in exactly one subset, the returned value
\* is the absolute difference of the subset sums, and items [25,7,13,31] with
\* bits 0,1,0,1 give {25,13}, {7,31} and difference 0.
C7_PartitionDecode ==
    (ex = "NPP" /\ Decoded) =>
        LET zero == Filter(arr, {k \in 1..n : BitsOf(sample)[k - 1] = 0})
            one == Filter(arr, {k \in 1..n : BitsOf(sample)[k - 1] = 1})
        IN /\ BagOf(result.P1) = BagOf(zero)
           /\ BagOf(result.P2) = BagOf(one)
           /\ Len(result.P1) + Len(result.P2) = Len(arr)
           /\ path = "anneal" => (result.P1 = zero /\ result.P2 = one)
           /\ result.value = Abs(SumSeq(zero) - SumSeq(one))
           /\ (arr = roundtrip_items /\ BitsOf(sample) = [k \in 0..3 |-> k % 2]) =>
                 /\ Range(result.P1) = {25, 13}
                 /\ Range(result.P2) = {7, 31}
                 /\ result.value = 0

\* C7 witness: the round-trip sample was decoded from a shuffled listing.
C7_Witness ==
    /\ ex = "NPP" /\ Decoded
    /\ arr = roundtrip_items
    /\ BitsOf(sample) = [k \in 0..3 |-> k % 2]
    /\ IndexOf(path, sample[1][1]) # 0

\* C8: a sample that lacks a declared variable makes the decoder end in
\* IncompleteAssignment without a domain result.
C8_IncompleteAssignment ==
    (calls = 1 /\ pc \in {"decoded", "failed"} /\ ~Total(path, sample, n)) =>
        (pc = "failed" /\ result.err = "IncompleteAssignment")

\* C9: the cancer example never reaches the solver with a variable count n
\* that differs from the number of selected genes.
C9_DimensionCheck ==
    (ex = "Cancer" /\ n # Unbound /\ n # Len(geneList(muts))) => calls = 0

\* the edges of the graph, as unordered pairs of the listed endpoints
GraphEdges == {{edges[k][1], edges[k][2]} : k \in 1..Len(edges)}

\* C10: for a total assignment MVC returns the number of edges with an
\* endpoint of bit 1, and that count is the number of edges exactly when the
\* assignment is a vertex cover, which is exactly when the penalty term is 0.
\* Checked on the decoded sample, and for the graph that has been built on every
\* total assignment listed in index order.
C10_CoverDecode ==
    /\ (ex = "MVC" /\ path = "anneal" /\ Decoded) =>
        LET x == BitsOf(sample)
        IN /\ result.value = Cardinality({e \in GraphEdges : \E v \in e : x[v] = 1})
           /\ (result.value = Cardinality(GraphEdges)) <=> Covers(x)
           /\ (result.value = Cardinality(GraphEdges)) <=> (MVC_Penalty(x) = 0)
           /\ ~Covers(x) => result.value < Cardinality(GraphEdges)
    /\ (ex = "MVC" /\ path = "anneal" /\ pc = "built") =>
        \A x \in Assignments(n) :
            LET listing == SampleOf(path, [k \in 1..n |-> k - 1], x, -1)
                covered == MVC(SortedSample(listing), "drawn")
            IN /\ covered.err = "none"
               /\ covered.value = Cardinality({e \in GraphEdges : \E v \in e : x[v] = 1})
               /\ (covered.value = Cardinality(GraphEdges)) <=> Covers(x)

\* C10 witness: MVC counted some but not all edges of a graph.
C10_Witness ==
    /\ ex = "MVC" /\ path = "anneal" /\ Decoded
    /\ Len(edges) >= 2
    /\ result.value > 0
    /\ result.value < Cardinality(GraphEdges)

\* what the build of Example 4 leaves when the interpreter's n is nn
CancerBuildOutcome(tbl, nn) ==
    IF nn = Unbound THEN "NameError"
    ELSE IF DLoopFails(tbl, nn) THEN "IndexError"
    ELSE "built"

\* values a preceding example (or none) leaves in n
LeftoverN == {Unbound, maxcut_n, mvc_n, order_n} \cup 1..MaxN

\* C11: no example depends on what another example left behind: the matrices
\* the cancer example has built are the ones it builds from the same mutation
\* table after any other example or alone, whatever value of n was left.
C11_Independence ==
    (ex = "Cancer" /\ pc = "built") =>
        \A nn \in LeftoverN :
            /\ CancerBuildOutcome(muts, nn) = "built"
            /\ BuildD(muts, nn) = D
            /\ BuildA(muts, nn, nn - 1) = A

\* C12: every example goes build, compile, solve, decode: the one solver call
\* is issued after the build with the bqm of the last compilation, and the
\* decoder finishes only after that call has returned.
C12_PipelineOrder ==
    [][ /\ calls' # calls =>
            \/ /\ pc = "built" /\ pc' = "solved"
               /\ calls = 0 /\ calls' = 1
               /\ compiled >= 1 /\ submitted' = compiled
            \/ pc' = "idle" /\ calls' = 0
        /\ pc' = "solved" => (pc \in {"built", "solved"} /\ calls' = 1)
        /\ (pc' = "decoded" /\ pc # "decoded") =>
            (pc = "solved" /\ calls = 1 /\ calls' = 1 /\ result'.kind = ex)
        /\ (pc' = "built") => (calls' = 0 /\ submitted' = 0)
      ]_vars

\* C12 witness: the order-partitioning example, which compiles twice, was
\* decoded after its single solver call.
C12_Witness ==
    /\ ex = "Order" /\ pc = "decoded"
    /\ compiled = 2 /\ submitted = 2 /\ calls = 1
    /\ result.kind = "Order"

UnitWeights == \A k \in 1..Len(edges) : edges[k][3] = 1

\* edges of the graph whose endpoints get different bits
CutEdges(x) == {e \in GraphEdges : \E u \in e, v \in e : x[u] # x[v]}

----------------------------------------------------------------------------
(* The pathway report over arbitrary matrices: Example 4 from the point      *)
(* where A and D exist, with A any symmetric zero-diagonal matrix and D any  *)
(* diagonal matrix of patient counts up to MaxCount.                         *)

\* a table in which the genes 0..nn-1 of geneList all occur
TableOf(nn) == [g \in 1..nn |-> [patientId |-> 1, gene |-> g]]

Counts == 0..MaxCount

SymmetricZeroDiagonal(nn) ==
    {M \in [0..(nn - 1) -> [0..(nn - 1) -> Counts]] :
        \A r \in 0..(nn - 1), q \in 0..(nn - 1) :
            /\ M[r][q] = M[q][r]
            /\ r = q => M[r][q] = 0}

Diagonal(nn) ==
    {M \in [0..(nn - 1) -> [0..(nn - 1) -> Counts]] :
        \A r \in 0..(nn - 1), q \in 0..(nn - 1) : r # q => M[r][q] = 0}

InitMetrics ==
    /\ path = "anneal"
    /\ pc = "built"
    /\ ex = "Cancer"
    /\ n \in 1..MaxN
    /\ i = n - 1
    /\ defs = {}
    /\ arr = <<>>
    /\ edges = <<>>
    /\ muts = TableOf(n)
    /\ D \in Diagonal(n)
    /\ A \in SymmetricZeroDiagonal(n)
    /\ stock_vals = <<>>
    /\ risk_factor_matrix = <<>>
    /\ calls = 0
    /\ compiled = Compilations("Cancer")
    /\ bqm = LastBqm("Cancer")
    /\ submitted = 0
    /\ sample = <<>>
    /\ result = NoResult

NextMetrics ==
    \/ Solve
    \/ Cancer_Decode

SpecMetrics == InitMetrics /\ [][NextMetrics]_vars

\* the report printed coverage and indep (an empty pathway stops it only at
\* the division that follows)
Reported == pc \in {"decoded", "failed"} /\ result.err \in {"none", "ZeroDivisionError"}

\* C15: for symmetric zero-diagonal A and diagonal D, the quadratic part of
\* the objective at the sampled assignment is indep of the reported pathway
\* and the linear part is its coverage, so the objective is
\* indep - alpha*coverage (times AlphaDen, with alpha = AlphaNum/AlphaDen).
C15_ObjectiveVsMetrics ==
    (ex = "Cancer" /\ Reported /\ Total(path, sample, n)) =>
        LET x == BitsOf(sample)
        IN /\ Cancer_H1(x) = result.aux
           /\ Cancer_H2(x) = result.value
           /\ Cancer_H(x) = AlphaDen * result.aux - AlphaNum * result.value

\* C15 witness: a reported pathway of at least two genes that overlap and
\* are covered.
C15_Witness ==
    /\ ex = "Cancer" /\ Reported /\ Total(path, sample, n)
    /\ Len(result.P1) >= 2
    /\ result.aux > 0 /\ result.value > 0
    /\ \E r \in 0..(n - 1) : BitsOf(sample)[r] = 0 /\ D[r][r] > 0

----------------------------------------------------------------------------
(* The two number-partitioning decoders on arbitrary dictionaries: Example 1 *)
(* from the point where arr and n exist, the decoder being handed any        *)
(* dictionary whose values are 0..MaxValue.                                  *)

ValueAssignments(nv) == [0..(nv - 1) -> 0..MaxValue]

Dictionaries(p, nv) ==
    {SampleOf(p, o, vals, skip) :
        o \in Orders(nv), vals \in ValueAssignments(nv), skip \in {-1, 0, nv - 1}}

InitDecoders ==
    /\ path \in {"anneal", "circuit"}
    /\ pc = "built"
    /\ ex = "NPP"
    /\ arr \in SeqsUpTo(1..MaxItem, MaxN) \ {<<>>}
    /\ n = Len(arr)
    /\ i = Unbound
    /\ defs = {}
    /\ edges = <<>>
    /\ muts = <<>>
    /\ D = <<>>
    /\ A = <<>>
    /\ stock_vals = <<>>
    /\ risk_factor_matrix = <<>>
    /\ calls = 0
    /\ compiled = Compilations("NPP")
    /\ bqm = LastBqm("NPP")
    /\ submitted = 0
    /\ sample = <<>>
    /\ result = NoResult

\* the dictionary the decoder is called with
Decoder_Input ==
    /\ pc = "built"
    /\ sample' \in Dictionaries(path, n)
    /\ calls' = calls + 1
    /\ submitted' = bqm
    /\ pc' = "solved"
    /\ UNCHANGED <<path, ex, n, i, defs, arr, edges, muts, D, A, stock_vals,
                   risk_factor_matrix, compiled, bqm, result>>

NextDecoders ==
    \/ Decoder_Input
    \/ NPP_Decode

SpecDecoders == InitDecoders /\ [][NextDecoders]_vars

\* the same dictionary under the variable names of path p
Renamed(p, smp) ==
    [k \in 1..Len(smp) |-> <<VarName(p, IndexOf(path, smp[k][1])), smp[k][2]>>]

CountIn(s, v) == Cardinality({k \in 1..Len(s) : s[k] = v})

\* entries of the dictionary holding item v with a value that is neither 0 nor 1
OddCount(smp, v) ==
    Cardinality({k \in 1..Len(smp) :
        /\ smp[k][2] \notin {0, 1}
        /\ arr[IndexOf(path, smp[k][1]) + 1] = v})

AllBinary(smp) == \A k \in 1..Len(smp) : smp[k][2] \in {0, 1}

\* C16: on the same dictionary NPP_measure and partition return the same
\* first subset; when every value is 0 or 1 they return the same second
\* subset and the same absolute difference; an item whose value is neither 0
\* nor 1 is in neither subset of partition and in the second subset of
\* NPP_measure, and that is the only difference.  The decoder of the running
\* path, which sorts the dictionary first on the annealing path, returns the
\* same subsets as collections.
C16_DecoderEquivalence ==
    (ex = "NPP" /\ pc = "decoded") =>
        LET measured == NPP_measure(Renamed("anneal", sample))
            sorted == NPP_measure(SortedSample(Renamed("anneal", sample)))
            parted == partition(Renamed("circuit", sample))
            odd == {k \in 1..Len(sample) : sample[k][2] \notin {0, 1}}
        IN /\ result = IF path = "anneal" THEN sorted ELSE parted
           /\ measured.P1 = parted.P1
           /\ AllBinary(sample) =>
                 /\ measured.P2 = parted.P2
                 /\ measured.value = parted.value
                 /\ sorted.value = parted.value
           /\ Len(parted.P1) + Len(parted.P2) + Cardinality(odd) = Len(sample)
           /\ Len(measured.P1) + Len(measured.P2) = Len(sample)
           /\ \A v \in Range(arr) :
                 /\ CountIn(measured.P2, v) = CountIn(parted.P2, v) + OddCount(sample, v)
                 /\ CountIn(sorted.P1, v) = CountIn(parted.P1, v)
                 /\ CountIn(sorted.P2, v) = CountIn(measured.P2, v)

\* C16 witness: partition decoded a dictionary that is not in index order and
\* holds a 0, a 1 and a 2, and left the item of the 2 out.
C16_Witness ==
    /\ ex = "NPP" /\ pc = "decoded" /\ path = "circuit"
    /\ \A v \in 0..2 : \E k \in 1..Len(sample) : sample[k][2] = v
    /\ IndexOf(path, sample[1][1]) # 0
    /\ Len(result.P1) = 1 /\ Len(result.P2) = 1
    /\ NPP_measure(Renamed("anneal", sample)).value # result.value

====
